---------------------------- MODULE Spec2Model ----------------------------
(***************************************************************************)
(* Model of the deterministic record reconciliation core of               *)
(* ai-data-scraper: _get_name, _normalize_name, fuzzy_merge_records and   *)
(* deduplicate_by_name (src/src/ai_agent.py) and the merge / deduplicate  *)
(* / tracking-field removal block that calls them (src/app.py, step 7).   *)
(*                                                                         *)
(* Text is computed with as a sequence of one-character strings, so that   *)
(* lower-casing, trimming, the suffix regular expression and the           *)
(* similarity ratio are computed character by character as Python does.    *)
(* A field value of a record is written as a string literal; Chars gives   *)
(* the characters of each literal the model uses.                          *)
(***************************************************************************)
EXTENDS Integers, Sequences, FiniteSets, TLC

(***************************************************************************)
(* Characters and Python's str methods.                                    *)
(***************************************************************************)
Uppers == <<"A","B","C","D","E","F","G","H","I","J","K","L","M",
            "N","O","P","Q","R","S","T","U","V","W","X","Y","Z">>

Lowers == <<"a","b","c","d","e","f","g","h","i","j","k","l","m",
            "n","o","p","q","r","s","t","u","v","w","x","y","z">>

Digits == <<"0","1","2","3","4","5","6","7","8","9">>

Range(s) == {s[i] : i \in DOMAIN s}

\* U+2013, the second character of the class [-–,] of _normalize_name.
EnDash == "endash"

\* Python's str.isspace() for the characters of the model.
IsSpace(c) == c \in {" ", "\t", "\n"}

\* str.lower() of one character.
LowerChar(c) ==
    IF c \in Range(Uppers)
    THEN Lowers[CHOOSE i \in DOMAIN Uppers : Uppers[i] = c]
    ELSE c

\* str.lower()
Lower(s) == [i \in DOMAIN s |-> LowerChar(s[i])]

\* str.isalnum() of one character.
IsAlnum(c) == c \in Range(Uppers) \cup Range(Lowers) \cup Range(Digits)

\* The class \w of the re module.
IsWord(c) == IsAlnum(c) \/ c = "_"

RECURSIVE LStrip(_)
LStrip(s) == IF s # <<>> /\ IsSpace(Head(s)) THEN LStrip(Tail(s)) ELSE s

RECURSIVE RStrip(_)
RStrip(s) ==
    IF s # <<>> /\ IsSpace(s[Len(s)])
    THEN RStrip(SubSeq(s, 1, Len(s) - 1))
    ELSE s

\* str.strip()
Strip(s) == LStrip(RStrip(s))

\* The decimal digits of a natural number: str(n).
RECURSIVE DigitsOf(_)
DigitsOf(n) ==
    IF n < 10 THEN <<Digits[n + 1]>>
    ELSE Append(DigitsOf(n \div 10), Digits[(n % 10) + 1])

(***************************************************************************)
(* Field values: text, a number, or None.  A field a record does not have *)
(* is a key outside the DOMAIN of the record.                              *)
(***************************************************************************)
None == [t |-> "none", s |-> "", n |-> 0]

Text(s) == [t |-> "str", s |-> s, n |-> 0]

Num(n) == [t |-> "int", s |-> "", n |-> n]

\* The characters of the text values of the model.
Chars ==
    "" :> <<>>
    @@ " " :> <<" ">>
    @@ "Zen Spa" :> <<"Z","e","n"," ","S","p","a">>
    @@ "zen spa" :> <<"z","e","n"," ","s","p","a">>
    @@ "Zen Spa Gym" :> <<"Z","e","n"," ","S","p","a"," ","G","y","m">>
    @@ "Spa Gym, City" :> <<"S","p","a"," ","G","y","m",","," ","C","i","t","y">>
    @@ "4.5" :> <<"4",".","5">>
    @@ "4.0" :> <<"4",".","0">>
    @@ "3.9" :> <<"3",".","9">>
    @@ "555" :> <<"5","5","5">>
    @@ "777" :> <<"7","7","7">>
    @@ "d1" :> <<"d","1">>
    @@ "ZEN SPA" :> <<"Z","E","N"," ","S","P","A">>
    @@ "Spa Zen" :> <<"S","p","a"," ","Z","e","n">>
    @@ "Lux" :> <<"L","u","x">>
    @@ "Luxe" :> <<"L","u","x","e">>
    @@ "4.6" :> <<"4",".","6">>
    @@ "d2" :> <<"d","2">>

\* Python's truth value of a field value: bool(v).
Truthy(v) ==
    CASE v.t = "none" -> FALSE
      [] v.t = "str" -> Chars[v.s] # <<>>
      [] v.t = "int" -> v.n # 0

\* str(v)
Str(v) ==
    CASE v.t = "none" -> <<"N","o","n","e">>
      [] v.t = "str" -> Chars[v.s]
      [] v.t = "int" -> DigitsOf(v.n)

\* record.get(key, default)
Get(record, key, default) ==
    IF key \in DOMAIN record THEN record[key] ELSE default

(***************************************************************************)
(* _get_name and _normalize_name.                                          *)
(***************************************************************************)
NameKeys == <<"Name", "name", "Business Name", "business_name", "Title", "title">>

\* The loop of _get_name from alias number i on: the first alias whose value
\* is truthy decides, and its text is trimmed.
RECURSIVE GetNameFrom(_, _)
GetNameFrom(record, i) ==
    IF i > Len(NameKeys) THEN <<>>
    ELSE LET val == Get(record, NameKeys[i], Text(""))
         IN  IF Truthy(val) THEN Strip(Str(val))
             ELSE GetNameFrom(record, i + 1)

\* _get_name(record)
GetName(record) == GetNameFrom(record, 1)

AllSpace(s, i, j) == \A k \in i..j : IsSpace(s[k])

AllWord(s, i, j) == \A k \in i..j : IsWord(s[k])

\* Whether \s*[-endash,]\s*\w+$ matches s from position i to the end of s.
SuffixMatchesAt(s, i) ==
    \E p \in i..Len(s) :
        /\ AllSpace(s, i, p - 1)
        /\ s[p] \in {"-", EnDash, ","}
        /\ \E q \in (p + 1)..Len(s) :
              /\ AllSpace(s, p + 1, q - 1)
              /\ AllWord(s, q, Len(s))

\* re.sub(r'\s*[-endash,]\s*\w+$', '', s): the leftmost match is removed.
StripSuffix(s) ==
    LET starts == {i \in 1..Len(s) : SuffixMatchesAt(s, i)}
    IN  IF starts = {} THEN s
        ELSE SubSeq(s, 1, (CHOOSE i \in starts : \A j \in starts : i <= j) - 1)

\* re.sub(r'\s+', ' ', s): every run of white space becomes one space.
RECURSIVE CollapseSpaces(_)
CollapseSpaces(s) ==
    IF s = <<>> THEN <<>>
    ELSE IF IsSpace(Head(s))
         THEN <<" ">> \o CollapseSpaces(LStrip(s))
         ELSE <<Head(s)>> \o CollapseSpaces(Tail(s))

\* _normalize_name(name)
NormalizeName(name) == Strip(CollapseSpaces(StripSuffix(Strip(Lower(name)))))

(***************************************************************************)
(* fuzz.token_sort_ratio of thefuzz (imported at line 9; the library is    *)
(* not part of the repository), as the library computes it: both strings   *)
(* are processed (lower case, every non-alphanumeric character replaced    *)
(* by a space, trimmed), their tokens sorted and joined by one space, and  *)
(* the ratio is round(100 * 2 * LCS / (len1 + len2)).                      *)
(***************************************************************************)
FullProcess(s) ==
    Strip([i \in DOMAIN s |-> IF IsAlnum(s[i]) THEN LowerChar(s[i]) ELSE " "])

\* The first token of s (s does not start with white space).
RECURSIVE FirstToken(_)
FirstToken(s) ==
    IF s = <<>> \/ IsSpace(Head(s)) THEN <<>>
    ELSE <<Head(s)>> \o FirstToken(Tail(s))

\* str.split(): the tokens between runs of white space.
RECURSIVE Split(_)
Split(s) ==
    LET t == LStrip(s)
    IN  IF t = <<>> THEN <<>>
        ELSE LET tok == FirstToken(t)
             IN  <<tok>> \o Split(SubSeq(t, Len(tok) + 1, Len(t)))

\* The code point order of the characters left by FullProcess.
Ord(c) ==
    IF c \in Range(Digits)
    THEN CHOOSE i \in DOMAIN Digits : Digits[i] = c
    ELSE Len(Digits) + (CHOOSE i \in DOMAIN Lowers : Lowers[i] = c)

\* a < b for strings, as Python orders them.
RECURSIVE StrLess(_, _)
StrLess(a, b) ==
    IF b = <<>> THEN FALSE
    ELSE IF a = <<>> THEN TRUE
    ELSE IF Head(a) = Head(b) THEN StrLess(Tail(a), Tail(b))
    ELSE Ord(Head(a)) < Ord(Head(b))

\* tok inserted into the sorted sequence of tokens toks.
RECURSIVE Insert(_, _)
Insert(tok, toks) ==
    IF toks = <<>> THEN <<tok>>
    ELSE IF StrLess(tok, Head(toks)) THEN <<tok>> \o toks
    ELSE <<Head(toks)>> \o Insert(tok, Tail(toks))

\* A variant of Sorted that leaves the tokens in the order of the name.
Unsorted(toks) == toks

\* sorted(tokens)
RECURSIVE Sorted(_)
Sorted(toks) ==
    IF toks = <<>> THEN <<>> ELSE Insert(Head(toks), Sorted(Tail(toks)))

\* " ".join(tokens)
RECURSIVE Join(_)
Join(toks) ==
    IF toks = <<>> THEN <<>>
    ELSE IF Len(toks) = 1 THEN Head(toks)
    ELSE Head(toks) \o <<" ">> \o Join(Tail(toks))

Max(x, y) == IF x >= y THEN x ELSE y

\* One row of the longest-common-subsequence table: prev[j + 1] is the LCS
\* length of the characters before ch with the first j characters of b, and
\* acc holds the entries of the new row for the first j - 1 characters.
\* (The new entries are bound as values, so that each is computed once.)
RECURSIVE LcsRow(_, _, _, _, _)
LcsRow(prev, ch, b, j, acc) ==
    IF j > Len(b) THEN acc
    ELSE CHOOSE row \in
             {LcsRow(prev, ch, b, j + 1, next) :
                 next \in {Append(acc, IF ch = b[j] THEN prev[j] + 1
                                       ELSE Max(prev[j + 1], acc[j]))}} : TRUE

\* The rows of the table one after the other; each row is computed in full
\* before the next one is started.
RECURSIVE LcsRows(_, _, _, _)
LcsRows(a, b, i, prev) ==
    IF i > Len(a) THEN prev
    ELSE CHOOSE last \in
             {LcsRows(a, b, i + 1, row) :
                 row \in {LcsRow(prev, a[i], b, 1, <<0>>)}} : TRUE

\* The length of the longest common subsequence of a and b.
Lcs(a, b) == LcsRows(a, b, 1, [j \in 1..(Len(b) + 1) |-> 0])[Len(b) + 1]

\* int(round(100 * 2 * m / total)), Python rounding halves to even.
RoundedPercent(m, total) ==
    LET q == (200 * m) \div total
        r == (200 * m) % total
    IN  IF 2 * r > total THEN q + 1
        ELSE IF 2 * r < total THEN q
        ELSE IF q % 2 = 0 THEN q ELSE q + 1

\* A variant of Ratio that takes twice the length of the first string for the
\* sum of the two lengths.
RatioOfFirst(a, b) ==
    IF Len(a) + Len(b) = 0 THEN 100
    ELSE IF Len(a) = 0 THEN 0
    ELSE RoundedPercent(Lcs(a, b), 2 * Len(a))

\* The ratio of two processed strings: 100 for two empty strings.
Ratio(a, b) ==
    IF Len(a) + Len(b) = 0 THEN 100
    ELSE RoundedPercent(Lcs(a, b), Len(a) + Len(b))

\* fuzz.token_sort_ratio(s1, s2)
TokenSortRatio(s1, s2) ==
    Ratio(Join(Sorted(Split(FullProcess(s1)))),
          Join(Sorted(Split(FullProcess(s2)))))

(***************************************************************************)
(* The inputs.  Records are drawn from Pool; each input record is an       *)
(* object of its own in the heap (a Python dict), named by its index.      *)
(***************************************************************************)
\* The most records all the input collections of one call hold together.
MaxRecords == 3

\* The most secondary collections of one call.
MaxSecLists == 2

Pool ==
    << \* 1: a maps listing without a rating
       ("Name" :> Text("Zen Spa") @@ "Rating" :> None
          @@ "Phone" :> Text("555") @@ "Data ID" :> Text("d1")),
       \* 2: the same business in lower case under the alias name, with a
       \* rating and a blank phone
       ("name" :> Text("zen spa") @@ "Rating" :> Text("4.5")
          @@ "Phone" :> Text(" ")),
       \* 3: a longer name, a rating of number zero
       ("Name" :> Text("Zen Spa Gym") @@ "Rating" :> Num(0)
          @@ "Phone" :> Text("777")),
       \* 4: a name with a locality suffix
       ("Name" :> Text("Spa Gym, City") @@ "Rating" :> Text("4.0")),
       \* 5: no name field at all
       ("Rating" :> Text("3.9") @@ "Phone" :> Text("555")) >>

\* A second family of inputs, about names: the same name in another letter
\* case, two names without a common character ("zen spa" and "lux" score 0),
\* two names without a common word that score 86 ("lux" and "luxe"), a blank
\* first alias before a populated one, and the words of a name in another
\* order under a later alias.
NamePool ==
    << \* 1: a rating of number zero
       ("Name" :> Text("Zen Spa") @@ "Rating" :> Num(0)),
       \* 2: the same name in upper case
       ("Name" :> Text("ZEN SPA") @@ "Rating" :> Text("4.6")),
       \* 3 and 4: one-word names
       ("Name" :> Text("Lux")),
       ("Name" :> Text("Luxe")),
       \* 5: Name is blank, name is populated
       ("Name" :> Text(" ") @@ "name" :> Text("Zen Spa")
          @@ "Rating" :> Text("4.6")),
       \* 6: Name is null, name is empty, Title is populated
       ("Name" :> None @@ "name" :> Text("") @@ "Title" :> Text("Spa Zen")
          @@ "Rating" :> Text("4.6")) >>

\* <<match_threshold, threshold>>: the defaults of fuzzy_merge_records and
\* deduplicate_by_name, and other values a caller may pass: 0, which every
\* score reaches, and 78, the score of "zen spa" with "zen spa gym" and of
\* "zen spa gym" with "spa gym" ("zen spa" with "spa gym" scores 43).
DefaultMatchThreshold == 70

DefaultDedupThreshold == 85

ThresholdPairs ==
    { <<DefaultMatchThreshold, DefaultDedupThreshold>>,
      <<0, 0>>,
      <<78, 78>> }

\* The tracking fields step 7 removes from the final records.
TrackingFields == {"Data ID", "Place ID", "Thumbnail"}

VARIABLES
    heap,             \* the dict objects: heap[id] is the record of object id
    orig,             \* the heap as it was when fuzzy_merge_records was called
    primary,          \* argument primary: a sequence of object ids
    secondary_lists,  \* argument *secondary_lists: a sequence of sequences of ids
    match_threshold,  \* argument match_threshold
    threshold,        \* argument threshold of deduplicate_by_name
    merged,           \* local merged of fuzzy_merge_records (ids)
    merged_names,     \* local merged_names
    done,             \* the number of secondary records processed so far
    fate,             \* history: what was done with each secondary record
    records,          \* argument records of deduplicate_by_name (ids)
    snap,             \* the heap as it was when deduplicate_by_name was called
    result,           \* local result of deduplicate_by_name (ids)
    seen_names,       \* local seen_names
    di,               \* the index of the next record of the loop of deduplicate_by_name
    pc,               \* where the run is
    threshold_types,  \* the Python types of match_threshold and of threshold
    serp_records,     \* app.py: the records of Google Maps (ids)
    yelp_records,     \* app.py: the records of Yelp
    local_records,    \* app.py: the records of the local pack
    pplx_base_records,   \* app.py: the records Perplexity discovered
    pplx_group_records,  \* app.py: the records of the field groups, in
                         \* insertion order
    warned,           \* app.py: st.warning was called
    enrich_call,      \* the locals of a call of enrich_with_place_details
    maps_call,        \* the locals of a call of search_google_maps
    calls             \* the locals of the calls of the merge engine that run
                      \* at the same time, one frame for each call

vars == <<heap, orig, primary, secondary_lists, match_threshold, threshold,
          merged, merged_names, done, fate, records, snap, result,
          seen_names, di, pc, threshold_types, serp_records, yelp_records,
          local_records, pplx_base_records, pplx_group_records, warned,
          enrich_call, maps_call, calls>>

\* What the two functions of the merge engine never assign.
outer == <<threshold_types, serp_records, yelp_records, local_records,
           pplx_base_records, pplx_group_records, warned, enrich_call,
           maps_call, calls>>

\* The locals of the merge engine.
engine == <<orig, primary, secondary_lists, match_threshold, threshold,
            threshold_types, merged, merged_names, done, fate, records, snap,
            result, seen_names, di>>

\* The collections of the pipeline.
collections == <<serp_records, yelp_records, local_records,
                 pplx_base_records, pplx_group_records, warned>>

\* No call of enrich_with_place_details is under way.
NoEnrichCall ==
    [records |-> <<>>, max_places |-> 0, enriched |-> <<>>, fetched |-> 0,
     i |-> 1, attempted |-> 0, outcomes |-> <<>>]

\* No call of search_google_maps is under way.
NoMapsCall ==
    [num_results |-> 0, all_results |-> <<>>, start |-> 0, requests |-> 0,
     returned |-> <<>>]

\* app.py, lines 230-236: the collections of the pipeline are empty.
NoCollections ==
    /\ serp_records = <<>>
    /\ yelp_records = <<>>
    /\ local_records = <<>>
    /\ pplx_base_records = <<>>
    /\ pplx_group_records = <<>>
    /\ warned = FALSE

\* The locals of the merge engine before a call (snap apart, which the
\* other functions use for the heap as it was when they were called).
NoEngineCall ==
    /\ orig = <<>>
    /\ primary = <<>>
    /\ secondary_lists = <<>>
    /\ merged = <<>>
    /\ merged_names = <<>>
    /\ done = 0
    /\ fate = <<>>
    /\ records = <<>>
    /\ result = <<>>
    /\ seen_names = <<>>
    /\ di = 1

\* The ids a..b in order.
Ids(a, b) == [i \in 1..(b - a + 1) |-> a + i - 1]

\* The secondary records in processing order: the nested loops of lines
\* 176-177 visit collection by collection, record by record.
RECURSIVE Flatten(_)
Flatten(lists) ==
    IF lists = <<>> THEN <<>> ELSE Head(lists) \o Flatten(Tail(lists))

\* A call with any records of pool as primary and as secondary collections.
\* The collections passed as secondary are not empty, as step 7 passes them
\* (app.py, lines 452-455); an empty one adds no iteration to the loops of
\* lines 176-177.
InitFrom(pool, types) ==
    \E n \in 0..MaxRecords :
    \E nl \in 0..MaxSecLists :
    \E choice \in [1..n -> DOMAIN pool] :
    \E cut \in [0..nl -> 0..n] :
    \E th \in ThresholdPairs :
    \E ty \in types \X types :
        /\ \A l \in 1..nl : cut[l - 1] < cut[l]
        /\ nl = 0 => cut[0] = n
        /\ nl > 0 => cut[nl] = n
        /\ heap = [i \in 1..n |-> pool[choice[i]]]
        /\ orig = heap
        /\ primary = Ids(1, cut[0])
        /\ secondary_lists = [l \in 1..nl |-> Ids(cut[l - 1] + 1, cut[l])]
        /\ ty = <<"int", "int">> \/ th = <<0, 0>>
        /\ threshold_types = ty
        /\ match_threshold = th[1]
        /\ threshold = th[2]
        /\ merged = <<>>
        /\ merged_names = <<>>
        /\ done = 0
        /\ fate = <<>>
        /\ records = <<>>
        /\ snap = <<>>
        /\ result = <<>>
        /\ seen_names = <<>>
        /\ di = 1
        /\ pc = "call"
        /\ NoCollections
        /\ enrich_call = NoEnrichCall
        /\ maps_call = NoMapsCall
        /\ calls = <<>>

\* A call on records of Pool.
Init == InitFrom(Pool, {"int"})

\* A call on records of NamePool.
InitNames == InitFrom(NamePool, {"int"})

\* A call on records of Pool whose thresholds are numbers or strings: the
\* signatures of lines 166 and 207 annotate int and nothing checks it.  The
\* value of a threshold that is no number plays no part, it is left 0.
InitTypes == InitFrom(Pool, {"int", "str"})


(***************************************************************************)
(* fuzzy_merge_records.                                                    *)
(***************************************************************************)
\* A variant of InitMerged that keeps the primary records themselves
\* (list(primary)) instead of copies.
InitMergedShared(h, prim) == [heap |-> h, merged |-> prim]

\* Lines 173-174: merged holds a new dict(r) for every primary record, in
\* order, and merged_names their normalized names.
InitMerged(h, prim) ==
    [heap |-> h \o [i \in 1..Len(prim) |-> h[prim[i]]],
     merged |-> Ids(Len(h) + 1, Len(h) + Len(prim))]

\* Lines 184-192 from index i on: the scan for the best score, which only a
\* strictly greater score replaces; names that are empty are skipped.
\* The names of the records of Pool as _get_name returns them, with their
\* normalized names, computed once.
AllRecords == Pool \o NamePool

NormTable ==
    [name \in {GetName(AllRecords[i]) : i \in DOMAIN AllRecords} |->
        NormalizeName(name)] @@ <<>>

\* _normalize_name(_get_name(record)), as lines 174, 178 and 212 call it.
\* (Every name a record of a run can have is a name of a record of Pool or
\* NamePool.)
NameOf(record) == NormTable[GetName(record)]

\* The normalized names of the records of Pool and NamePool and their
\* scores, computed once.
PoolNames == {NormTable[name] : name \in DOMAIN NormTable}

\* (@@ makes the table an explicit function, so each score is computed once.)
ScoreTable ==
    LET names == PoolNames
    IN  [p \in names \X names |-> TokenSortRatio(p[1], p[2])] @@ <<>>

\* fuzz.token_sort_ratio(s1, s2) as lines 189 and 219 call it.
Score(s1, s2) == ScoreTable[<<s1, s2>>]

RECURSIVE BestFrom(_, _, _, _)
BestFrom(names, sec_name, i, best) ==
    IF i > Len(names) THEN best
    ELSE IF names[i] = <<>> THEN BestFrom(names, sec_name, i + 1, best)
    ELSE LET score == Score(sec_name, names[i])
         IN  IF score > best.score
             THEN BestFrom(names, sec_name, i + 1, [score |-> score, idx |-> i])
             ELSE BestFrom(names, sec_name, i + 1, best)

\* A variant of the scan that starts from best_score -1 and does not skip
\* the empty names.
RECURSIVE BestFromAll(_, _, _, _)
BestFromAll(names, sec_name, i, best) ==
    IF i > Len(names) THEN best
    ELSE LET score == Score(sec_name, names[i])
         IN  IF score > best.score
             THEN BestFromAll(names, sec_name, i + 1,
                              [score |-> score, idx |-> i])
             ELSE BestFromAll(names, sec_name, i + 1, best)

BestMatchNoSkip(names, sec_name) ==
    BestFromAll(names, sec_name, 1, [score |-> -1, idx |-> 0])

\* A variant of the scan in which an equal score also replaces the best.
RECURSIVE BestFromLast(_, _, _, _)
BestFromLast(names, sec_name, i, best) ==
    IF i > Len(names) THEN best
    ELSE IF names[i] = <<>> THEN BestFromLast(names, sec_name, i + 1, best)
    ELSE LET score == Score(sec_name, names[i])
         IN  IF score >= best.score
             THEN BestFromLast(names, sec_name, i + 1,
                               [score |-> score, idx |-> i])
             ELSE BestFromLast(names, sec_name, i + 1, best)

BestMatchLast(names, sec_name) ==
    BestFromLast(names, sec_name, 1, [score |-> 0, idx |-> 0])

\* best_score and best_idx after the scan (best_idx counts from 1 here, so
\* Python's -1 is 0).
BestMatch(names, sec_name) ==
    BestFrom(names, sec_name, 1, [score |-> 0, idx |-> 0])

\* A variant of SecValueUsable that lets blank text through.
SecValueUsableNotNone(v) == v.t # "none"

\* Line 196: the secondary's value is worth writing.
SecValueUsable(v) == v.t # "none" /\ Strip(Str(v)) # <<>>

\* A variant of ExistingIsOpen that fills a field only when the output
\* record has no such key.
ExistingIsOpenAbsentOnly(target, k) == k \notin DOMAIN target

\* Lines 197-198: the value the output record holds (None when it has no such
\* key) leaves the field open to be filled.
ExistingIsOpen(target, k) ==
    LET existing == Get(target, k, None)
    IN  ~Truthy(existing) \/ Strip(Str(existing)) = <<>>

\* Lines 195-199: the output record after the secondary record was merged
\* into it.
FillFields(target, sec) ==
    LET written == {k \in DOMAIN sec :
                       SecValueUsable(sec[k]) /\ ExistingIsOpen(target, k)}
    IN  [k \in DOMAIN target \cup written |->
            IF k \in written THEN sec[k] ELSE target[k]]

\* A variant of AppendCopy that skips a record without a name instead of
\* appending it.
AppendCopySkipNameless(st, src, name, score) ==
    [heap |-> IF name = <<>> THEN st.heap ELSE Append(st.heap, st.heap[src]),
     merged |-> IF name = <<>> THEN st.merged
                ELSE Append(st.merged, Len(st.heap) + 1),
     merged_names |-> IF name = <<>> THEN st.merged_names
                      ELSE Append(st.merged_names, name),
     entry |-> [src |-> src, op |-> "append", name |-> name,
                idx |-> Len(st.merged) + 1, score |-> score,
                len |-> Len(st.merged),
                before |-> st.heap[src], after |-> st.heap[src]]]

\* A variant of AppendCopy that puts the new record at the front of merged.
AppendCopyFront(st, src, name, score) ==
    [heap |-> Append(st.heap, st.heap[src]),
     merged |-> <<Len(st.heap) + 1>> \o st.merged,
     merged_names |-> <<name>> \o st.merged_names,
     entry |-> [src |-> src, op |-> "append", name |-> name,
                idx |-> 1, score |-> score,
                len |-> Len(st.merged),
                before |-> st.heap[src], after |-> st.heap[src]]]

\* Lines 180-181 and 201-202: a new dict(sec_record) is appended to merged
\* and name to merged_names.
AppendCopy(st, src, name, score) ==
    [heap |-> Append(st.heap, st.heap[src]),
     merged |-> Append(st.merged, Len(st.heap) + 1),
     merged_names |-> Append(st.merged_names, name),
     entry |-> [src |-> src, op |-> "append", name |-> name,
                idx |-> Len(st.merged) + 1, score |-> score,
                len |-> Len(st.merged),
                before |-> st.heap[src], after |-> st.heap[src]]]

\* Line 197, merged[best_idx]: the position the index selects, which is the
\* last one for Python's -1, and 0 when there is none (IndexError).
At(seq, idx) ==
    IF idx = 0 THEN Len(seq) ELSE IF idx \in DOMAIN seq THEN idx ELSE 0

\* Lines 195-199: the secondary record is merged into merged[best_idx].
MergeInto(st, src, sec_name, best) ==
    LET at == At(st.merged, best.idx)
    IN  IF at = 0
        THEN [heap |-> st.heap, merged |-> st.merged,
              merged_names |-> st.merged_names,
              entry |-> [src |-> src, op |-> "raise", name |-> sec_name,
                         idx |-> 0, score |-> best.score,
                         len |-> Len(st.merged),
                         before |-> st.heap[src], after |-> st.heap[src]]]
        ELSE LET id == st.merged[at]
                 new == FillFields(st.heap[id], st.heap[src])
             IN  [heap |-> [st.heap EXCEPT ![id] = new],
                  merged |-> st.merged,
                  merged_names |-> st.merged_names,
                  entry |-> [src |-> src, op |-> "merge", name |-> sec_name,
                             idx |-> at, score |-> best.score,
                             len |-> Len(st.merged),
                             before |-> st.heap[id], after |-> new]]

\* A variant of MergeOne whose condition of line 194 lacks best_idx >= 0.
MergeOneNoIndexGuard(st, src, mt) ==
    LET sec_name == NameOf(st.heap[src])
        best == BestMatch(st.merged_names, sec_name)
    IN  IF sec_name = <<>> THEN AppendCopy(st, src, <<>>, 0)
        ELSE IF best.score >= mt
        THEN MergeInto(st, src, sec_name, best)
        ELSE AppendCopy(st, src, sec_name, best.score)

\* Lines 178-202: one secondary record, object src, is processed in the state
\* st of the call.  entry is the history of the step: the decision, the index
\* of the output entry, the best score, and the output record before and
\* after.
MergeOne(st, src, mt) ==
    LET sec_name == NameOf(st.heap[src])
        best == BestMatch(st.merged_names, sec_name)
    IN  IF sec_name = <<>> THEN AppendCopy(st, src, <<>>, 0)
        ELSE IF best.score >= mt /\ best.idx >= 1
        THEN MergeInto(st, src, sec_name, best)
        ELSE AppendCopy(st, src, sec_name, best.score)

\* The call: primary is copied and its names are cached (lines 173-174).
Call ==
    /\ pc = "call"
    /\ LET st == InitMerged(heap, primary)
       IN  /\ heap' = st.heap
           /\ merged' = st.merged
           /\ merged_names' =
                 [i \in 1..Len(st.merged) |->
                     NameOf(st.heap[st.merged[i]])]
    /\ pc' = "merge"
    /\ UNCHANGED <<orig, primary, secondary_lists, match_threshold, threshold,
                   done, fate, records, snap, result, seen_names, di>>
    /\ UNCHANGED outer

\* Line 194: best_score >= match_threshold is evaluated for every secondary
\* record that has a name, before best_idx is looked at; Python raises
\* TypeError when an int is compared with a str.
MergeRaises(type, record) == type # "int" /\ NameOf(record) # <<>>

\* One iteration of the loops of lines 176-202.  An exception leaves the
\* function (nothing of app.py step 7 catches it) and the locals as they are.
MergeStep ==
    /\ pc = "merge"
    /\ done < Len(Flatten(secondary_lists))
    /\ LET src == Flatten(secondary_lists)[done + 1]
           st == MergeOne([heap |-> heap, merged |-> merged,
                           merged_names |-> merged_names],
                          src, match_threshold)
       IN  IF MergeRaises(threshold_types[1], heap[src])
              \/ st.entry.op = "raise"
           THEN /\ pc' = "raised"
                /\ UNCHANGED <<heap, merged, merged_names, fate, done>>
           ELSE /\ heap' = st.heap
                /\ merged' = st.merged
                /\ merged_names' = st.merged_names
                /\ fate' = Append(fate, st.entry)
                /\ done' = done + 1
                /\ pc' = pc
    /\ UNCHANGED <<orig, primary, secondary_lists, match_threshold, threshold,
                   records, snap, result, seen_names, di>>
    /\ UNCHANGED outer

(***************************************************************************)
(* deduplicate_by_name.                                                    *)
(***************************************************************************)
\* A variant of IsDup that compares with the name accepted last only.
IsDupLastOnly(name, seen, t) ==
    seen # <<>> /\ Score(name, seen[Len(seen)]) >= t

\* Lines 217-221: some accepted name scores at least the threshold.
IsDup(name, seen, t) ==
    \E i \in DOMAIN seen : Score(name, seen[i]) >= t

\* A variant of DedupOne without the branch for records without a name.
DedupOneNoNameless(st, h, id, t) ==
    LET name == NameOf(h[id])
    IN  IF IsDup(name, st.seen_names, t) THEN st
        ELSE [result |-> Append(st.result, id),
              seen_names |-> Append(st.seen_names, name)]

\* A variant of DedupOne in which a duplicate takes the place of the record
\* kept last.
DedupOneKeepLast(st, h, id, t) ==
    LET name == NameOf(h[id])
    IN  IF name = <<>>
        THEN [result |-> Append(st.result, id), seen_names |-> st.seen_names]
        ELSE IF IsDup(name, st.seen_names, t)
        THEN [result |-> [st.result EXCEPT ![Len(st.result)] = id],
              seen_names |-> st.seen_names]
        ELSE [result |-> Append(st.result, id),
              seen_names |-> Append(st.seen_names, name)]

\* A variant of DedupOne that also records the name of a record it discards.
DedupOneSeenAll(st, h, id, t) ==
    LET name == NameOf(h[id])
    IN  IF name = <<>>
        THEN [result |-> Append(st.result, id), seen_names |-> st.seen_names]
        ELSE IF IsDup(name, st.seen_names, t)
        THEN [result |-> st.result, seen_names |-> Append(st.seen_names, name)]
        ELSE [result |-> Append(st.result, id),
              seen_names |-> Append(st.seen_names, name)]

\* A variant of DedupOne that puts a record it keeps at the front of result.
DedupOneInsertFirst(st, h, id, t) ==
    LET name == NameOf(h[id])
    IN  IF name = <<>>
        THEN [result |-> <<id>> \o st.result, seen_names |-> st.seen_names]
        ELSE IF IsDup(name, st.seen_names, t) THEN st
        ELSE [result |-> <<id>> \o st.result,
              seen_names |-> Append(st.seen_names, name)]

\* Lines 212-225: one record, object id, is processed: result holds the
\* object itself (result.append(record)), not a copy.
DedupOne(st, h, id, t) ==
    LET name == NameOf(h[id])
    IN  IF name = <<>>
        THEN [result |-> Append(st.result, id), seen_names |-> st.seen_names]
        ELSE IF IsDup(name, st.seen_names, t) THEN st
        ELSE [result |-> Append(st.result, id),
              seen_names |-> Append(st.seen_names, name)]

\* The loop of lines 211-225 from record number i on.
RECURSIVE DedupFrom(_, _, _, _, _)
DedupFrom(st, h, recs, i, t) ==
    IF i > Len(recs) THEN st
    ELSE DedupFrom(DedupOne(st, h, recs[i], t), h, recs, i + 1, t)

\* deduplicate_by_name(recs, t) in heap h: the ids of the records returned.
Deduplicate(h, recs, t) ==
    DedupFrom([result |-> <<>>, seen_names |-> <<>>], h, recs, 1, t).result

\* Line 204 and app.py lines 466-467: fuzzy_merge_records returns merged and
\* the caller passes it to deduplicate_by_name.
MergeReturn ==
    /\ pc = "merge"
    /\ done = Len(Flatten(secondary_lists))
    /\ records' = merged
    /\ snap' = heap
    /\ result' = <<>>
    /\ seen_names' = <<>>
    /\ di' = 1
    /\ pc' = "dedup"
    /\ UNCHANGED <<heap, orig, primary, secondary_lists, match_threshold,
                   threshold, merged, merged_names, done, fate>>
    /\ UNCHANGED outer

\* Line 219: the score is compared with threshold when a record that has a
\* name meets an accepted name; Python raises TypeError when an int is
\* compared with a str.
DedupRaises(type, record, seen) ==
    type # "int" /\ NameOf(record) # <<>> /\ seen # <<>>

\* One iteration of the loop of lines 211-225.
DedupStep ==
    /\ pc = "dedup"
    /\ di <= Len(records)
    /\ IF DedupRaises(threshold_types[2], heap[records[di]], seen_names)
       THEN /\ pc' = "raised"
            /\ UNCHANGED <<result, seen_names, di>>
       ELSE LET st == DedupOne([result |-> result, seen_names |-> seen_names],
                               heap, records[di], threshold)
            IN  /\ result' = st.result
                /\ seen_names' = st.seen_names
                /\ di' = di + 1
                /\ pc' = pc
    /\ UNCHANGED <<heap, orig, primary, secondary_lists, match_threshold,
                   threshold, merged, merged_names, done, fate, records,
                   snap>>
    /\ UNCHANGED outer

\* Line 227: deduplicate_by_name returns result.
DedupReturn ==
    /\ pc = "dedup"
    /\ di > Len(records)
    /\ pc' = "strip"
    /\ UNCHANGED <<heap, orig, primary, secondary_lists, match_threshold,
                   threshold, merged, merged_names, done, fate, records,
                   snap, result, seen_names, di>>
    /\ UNCHANGED outer

(***************************************************************************)
(* app.py, step 7: the tracking fields are removed from the records that   *)
(* deduplicate_by_name returned.                                           *)
(***************************************************************************)
\* r.pop(key, None) for the three tracking fields.
PopTracking(record) == [k \in DOMAIN record \ TrackingFields |-> record[k]]

\* Lines 470-473: every object of final_records loses its tracking fields.
StripTracking ==
    /\ pc = "strip"
    /\ heap' = [id \in DOMAIN heap |->
                   IF id \in Range(result) THEN PopTracking(heap[id])
                   ELSE heap[id]]
    /\ pc' = "done"
    /\ UNCHANGED <<orig, primary, secondary_lists, match_threshold, threshold,
                   merged, merged_names, done, fate, records, snap, result,
                   seen_names, di>>
    /\ UNCHANGED outer

Next ==
    \/ Call
    \/ MergeStep
    \/ MergeReturn
    \/ DedupStep
    \/ DedupReturn
    \/ StripTracking

Spec == Init /\ [][Next]_vars

\* The same program on the records of NamePool.
SpecNames == InitNames /\ [][Next]_vars

\* The same program called with thresholds of either type.
SpecTypes == InitTypes /\ [][Next]_vars

(***************************************************************************)
(* serp_search.py: enrich_with_place_details.                              *)
(***************************************************************************)
\* Records as _parse_maps_item builds them (lines 58-75), cut down to four of
\* their fields: what the API did not deliver is the empty string.  The
\* names differ, as search_serp_multiple leaves them (lines 295-298).
MapsPool ==
    << ("Name" :> Text("Zen Spa") @@ "Phone" :> Text("")
        @@ "Rating" :> Text("4.5") @@ "Data ID" :> Text("d1")),
       ("Name" :> Text("Zen Spa Gym") @@ "Phone" :> Text("777")
        @@ "Rating" :> Text("") @@ "Data ID" :> Text("d2")),
       ("Name" :> Text("Lux") @@ "Phone" :> Text("555")
        @@ "Rating" :> Text("4.0") @@ "Data ID" :> Text("")) >>

\* What get_place_details returns (lines 95-152): the fields of the place
\* that have a value.
DetailsPool ==
    << [Phone |-> Text("555"), Rating |-> Text("4.6")],
       [Name |-> Text("Zen Spa")] >>

\* The greatest max_places of a call.
MaxPlaces == 2

\* The outcomes of a call of get_place_details: it raises, or returns one
\* of the results of DetailsPool.
Lookups ==
    {[ok |-> FALSE, details |-> 1]}
        \cup {[ok |-> TRUE, details |-> d] : d \in DOMAIN DetailsPool}

\* Lines 189-192: the copy of the record with the details filled in where
\* it has no value.
FillGaps(record, details) ==
    [k \in DOMAIN record \cup DOMAIN details |->
        IF k \in DOMAIN details
           /\ (k \notin DOMAIN record \/ ~Truthy(record[k]))
        THEN details[k] ELSE record[k]]

\* Lines 182-198: one record, object id, in the state st of the call, when
\* the lookup has the outcome lookup.  attempted counts the calls of
\* get_place_details and outcomes tells what was done with each record.
EnrichOne(st, id, lookup) ==
    IF Truthy(Get(st.heap[id], "Data ID", Text("")))
       /\ st.fetched < st.max_places
    THEN IF lookup.ok
         THEN [st EXCEPT
                 !.heap = Append(st.heap,
                              FillGaps(st.heap[id], DetailsPool[lookup.details])),
                 !.enriched = Append(st.enriched, Len(st.heap) + 1),
                 !.fetched = st.fetched + 1,
                 !.attempted = st.attempted + 1,
                 !.outcomes = Append(st.outcomes, "fetched")]
         ELSE [st EXCEPT
                 !.enriched = Append(st.enriched, id),
                 !.attempted = st.attempted + 1,
                 !.outcomes = Append(st.outcomes, "failed")]
    ELSE [st EXCEPT
            !.enriched = Append(st.enriched, id),
            !.outcomes = Append(st.outcomes, "skipped")]

\* A call enrich_with_place_details(records, api_key, max_places) on records
\* of MapsPool.
InitEnrich ==
    \E n \in 0..MaxRecords :
    \E choice \in [1..n -> DOMAIN MapsPool] :
    \E max_places \in 0..MaxPlaces :
        /\ heap = [i \in 1..n |-> MapsPool[choice[i]]]
        /\ enrich_call = [NoEnrichCall EXCEPT !.records = Ids(1, n),
                                              !.max_places = max_places]
        /\ pc = "enrich"
        /\ NoEngineCall
        /\ snap = heap
        /\ match_threshold = DefaultMatchThreshold
        /\ threshold = DefaultDedupThreshold
        /\ threshold_types = <<"int", "int">>
        /\ NoCollections
        /\ maps_call = NoMapsCall
        /\ calls = <<>>

\* One iteration of the loop of lines 181-198.
EnrichStep ==
    /\ pc = "enrich"
    /\ enrich_call.i <= Len(enrich_call.records)
    /\ \E lookup \in Lookups :
          LET st == EnrichOne([heap |-> heap,
                               max_places |-> enrich_call.max_places,
                               enriched |-> enrich_call.enriched,
                               fetched |-> enrich_call.fetched,
                               attempted |-> enrich_call.attempted,
                               outcomes |-> enrich_call.outcomes],
                              enrich_call.records[enrich_call.i], lookup)
          IN  /\ heap' = st.heap
              /\ enrich_call' =
                    [enrich_call EXCEPT !.enriched = st.enriched,
                                        !.fetched = st.fetched,
                                        !.attempted = st.attempted,
                                        !.outcomes = st.outcomes,
                                        !.i = enrich_call.i + 1]
    /\ UNCHANGED <<pc, maps_call, calls>>
    /\ UNCHANGED engine
    /\ UNCHANGED collections

\* Line 200: enrich_with_place_details returns enriched.
EnrichReturn ==
    /\ pc = "enrich"
    /\ enrich_call.i > Len(enrich_call.records)
    /\ pc' = "enriched"
    /\ UNCHANGED <<heap, enrich_call, maps_call, calls>>
    /\ UNCHANGED engine
    /\ UNCHANGED collections

NextEnrich ==
    \/ EnrichStep
    \/ EnrichReturn

SpecEnrich == InitEnrich /\ [][NextEnrich]_vars

(***************************************************************************)
(* serp_search.py: search_google_maps.                                     *)
(***************************************************************************)
\* Line 24.
per_page == 20

\* The greatest num_results of a call and the greatest number of results
\* the API delivers in one page.
MaxNumResults == 41
MaxPageSize == 21

\* Line 26: the condition of the loop.
Continue(all_results, num_results) == Len(all_results) < num_results

\* A variant of Sliced that returns all the records collected.
Unsliced(all_results, num_results) == all_results

\* Line 54: all_results[:num_results], for a num_results that is not
\* negative.
Sliced(all_results, num_results) ==
    SubSeq(all_results, 1,
           IF num_results < Len(all_results) THEN num_results
           ELSE Len(all_results))

\* Lines 45-47: the records of a page of size results, requested as page
\* number request from offset start, in the order of the page.  A record is
\* told from the others by its request and its place in the page.
Page(request, start, size) ==
    [k \in 1..size |-> [request |-> request, start |-> start, place |-> k]]

\* A call search_google_maps(query, api_key, num_results).
InitMaps ==
    \E num_results \in 0..MaxNumResults :
        /\ maps_call = [NoMapsCall EXCEPT !.num_results = num_results]
        /\ pc = "maps"
        /\ heap = <<>>
        /\ snap = <<>>
        /\ NoEngineCall
        /\ match_threshold = DefaultMatchThreshold
        /\ threshold = DefaultDedupThreshold
        /\ threshold_types = <<"int", "int">>
        /\ NoCollections
        /\ enrich_call = NoEnrichCall
        /\ calls = <<>>

\* Lines 26-51: one iteration of the loop, in which the request returns a
\* page of any size.  pc is "maps" at the test of the loop and "sliced"
\* when the loop was left.
MapsPage ==
    /\ pc = "maps"
    /\ Continue(maps_call.all_results, maps_call.num_results)
    /\ \E size \in 0..MaxPageSize :
          LET local_results ==
                  Page(maps_call.requests + 1, maps_call.start, size)
          IN  IF local_results = <<>>
              THEN /\ maps_call' =
                         [maps_call EXCEPT !.requests = maps_call.requests + 1]
                   /\ pc' = "sliced"
              ELSE /\ maps_call' =
                         [maps_call EXCEPT
                             !.requests = maps_call.requests + 1,
                             !.all_results =
                                 maps_call.all_results \o local_results,
                             !.start = maps_call.start + per_page]
                   /\ pc' = IF Len(local_results) < per_page THEN "sliced"
                            ELSE "maps"
    /\ UNCHANGED <<heap, enrich_call, calls>>
    /\ UNCHANGED engine
    /\ UNCHANGED collections

\* Line 26: the condition of the loop is false.
MapsEnough ==
    /\ pc = "maps"
    /\ ~Continue(maps_call.all_results, maps_call.num_results)
    /\ pc' = "sliced"
    /\ UNCHANGED <<heap, enrich_call, maps_call, calls>>
    /\ UNCHANGED engine
    /\ UNCHANGED collections

\* Line 54: the function returns.
MapsReturn ==
    /\ pc = "sliced"
    /\ maps_call' =
          [maps_call EXCEPT
              !.returned = Sliced(maps_call.all_results, maps_call.num_results)]
    /\ pc' = "maps_returned"
    /\ UNCHANGED <<heap, enrich_call, calls>>
    /\ UNCHANGED engine
    /\ UNCHANGED collections

NextMaps ==
    \/ MapsPage
    \/ MapsEnough
    \/ MapsReturn

\* Every page request returns and the function goes on: no step of the
\* call that can be taken is put off for ever.
SpecMaps == InitMaps /\ [][NextMaps]_vars /\ WF_vars(NextMaps)

(***************************************************************************)
(* app.py: the pipeline, steps 1 to 7.  Step 0 and the sidebar give the    *)
(* requirement, the field groups and the switches of the optional steps,   *)
(* which are inputs here.                                                  *)
(***************************************************************************)
\* The greatest number of field groups of a run, and the greatest number of
\* records its collections hold.
MaxGroups == 2
MaxHeld == 2

\* The step that follows a step of the pipeline.
Following(step) ==
    CASE step = "step1" -> "step2"
      [] step = "step2" -> "step3"
      [] step = "step3" -> "step4"
      [] step = "step4" -> "step5a"
      [] step = "step5a" -> "step5b"
      [] step = "step5b" -> "step6a"
      [] step = "step6a" -> "step6b"
      [] step = "step6b" -> "step7"

\* A variant of OnFailure in which every handler stops the run.
OnFailureStop(step) == "stopped"

\* The except branches of the steps: that of step 1 reports the error and
\* calls st.stop() (lines 306-308), the others call st.warning and the run
\* goes on (lines 323-324, 344-345, 359-360, 371-372, 381-382, 407-408,
\* 441-443).
OnFailure(step) == IF step = "step1" THEN "stopped" ELSE Following(step)

\* The number of records the collections hold.
Held ==
    Len(serp_records) + Len(yelp_records) + Len(local_records)
        + Len(pplx_base_records) + Len(Flatten(pplx_group_records))

\* The results a search can deliver: up to n records of pool.
Results(pool, n) == UNION {[1..m -> DOMAIN pool] : m \in 0..n}

\* The run: lines 230-236.
InitPipeline ==
    /\ pc = "step1"
    /\ heap = <<>>
    /\ snap = <<>>
    /\ NoEngineCall
    /\ match_threshold = DefaultMatchThreshold
    /\ threshold = DefaultDedupThreshold
    /\ threshold_types = <<"int", "int">>
    /\ NoCollections
    /\ enrich_call = NoEnrichCall
    /\ maps_call = NoMapsCall
    /\ calls = <<>>

\* Step 1, lines 283-308: the queries are generated, or the run stops.
Step1 ==
    /\ pc = "step1"
    /\ \E ok \in BOOLEAN :
          pc' = IF ok THEN Following("step1") ELSE OnFailure("step1")
    /\ UNCHANGED <<heap, enrich_call, maps_call, calls>>
    /\ UNCHANGED engine
    /\ UNCHANGED collections

\* Step 2, lines 313-324: search_serp_multiple delivers records with
\* different names, or raises.
Step2 ==
    /\ pc = "step2"
    /\ \E ok \in BOOLEAN :
       \E found \in Results(MapsPool, MaxHeld - Held) :
          IF ok
          THEN /\ \A a, b \in DOMAIN found : found[a] = found[b] => a = b
               /\ heap' = heap \o [k \in DOMAIN found |-> MapsPool[found[k]]]
               /\ serp_records' = Ids(Len(heap) + 1, Len(heap) + Len(found))
               /\ pc' = Following("step2")
               /\ UNCHANGED warned
          ELSE /\ found = <<>>
               /\ warned' = TRUE
               /\ pc' = OnFailure("step2")
               /\ UNCHANGED <<heap, serp_records>>
    /\ UNCHANGED <<yelp_records, local_records, pplx_base_records,
                   pplx_group_records, enrich_call, maps_call, calls>>
    /\ UNCHANGED engine

\* The loop of enrich_with_place_details from record number i on, when the
\* lookups have the outcomes lookups.
RECURSIVE EnrichFrom(_, _, _, _)
EnrichFrom(st, recs, lookups, i) ==
    IF i > Len(recs) THEN st
    ELSE EnrichFrom(EnrichOne(st, recs[i], lookups[i]), recs, lookups, i + 1)

\* Step 3, lines 329-345: when it is switched on and there are maps records,
\* enrich_with_place_details replaces them, or raises.
Step3 ==
    /\ pc = "step3"
    /\ \E run \in BOOLEAN :
       \E ok \in BOOLEAN :
       \E max_places \in 1..MaxPlaces :
       \E lookups \in [DOMAIN serp_records -> Lookups] :
          IF run /\ serp_records # <<>>
          THEN IF ok
               THEN LET st == EnrichFrom([heap |-> heap,
                                          max_places |-> max_places,
                                          enriched |-> <<>>, fetched |-> 0,
                                          attempted |-> 0, outcomes |-> <<>>],
                                         serp_records, lookups, 1)
                    IN  /\ heap' = st.heap
                        /\ serp_records' = st.enriched
                        /\ pc' = Following("step3")
                        /\ UNCHANGED warned
               ELSE /\ warned' = TRUE
                    /\ pc' = OnFailure("step3")
                    /\ UNCHANGED <<heap, serp_records>>
          ELSE /\ pc' = Following("step3")
               /\ UNCHANGED <<heap, serp_records, warned>>
    /\ UNCHANGED <<yelp_records, local_records, pplx_base_records,
                   pplx_group_records, enrich_call, maps_call, calls>>
    /\ UNCHANGED engine

\* Step 4, lines 350-360: the web search, whose results go into the prompt
\* of Perplexity only.
Step4 ==
    /\ pc = "step4"
    /\ \E ok \in BOOLEAN :
          /\ warned' = (warned \/ ~ok)
          /\ pc' = IF ok THEN Following("step4") ELSE OnFailure("step4")
    /\ UNCHANGED <<heap, serp_records, yelp_records, local_records,
                   pplx_base_records, pplx_group_records, enrich_call,
                   maps_call, calls>>
    /\ UNCHANGED engine

\* Step 5a, lines 365-372: when it is switched on, search_yelp delivers
\* records, or raises.
Step5a ==
    /\ pc = "step5a"
    /\ \E run \in BOOLEAN :
       \E ok \in BOOLEAN :
       \E found \in Results(Pool, MaxHeld - Held) :
          IF run /\ ok
          THEN /\ heap' = heap \o [k \in DOMAIN found |-> Pool[found[k]]]
               /\ yelp_records' = Ids(Len(heap) + 1, Len(heap) + Len(found))
               /\ pc' = Following("step5a")
               /\ UNCHANGED warned
          ELSE /\ found = <<>>
               /\ warned' = (warned \/ run)
               /\ pc' = IF run THEN OnFailure("step5a")
                        ELSE Following("step5a")
               /\ UNCHANGED <<heap, yelp_records>>
    /\ UNCHANGED <<serp_records, local_records, pplx_base_records,
                   pplx_group_records, enrich_call, maps_call, calls>>
    /\ UNCHANGED engine

\* Step 5b, lines 374-382: when it is switched on, the results of the local
\* pack are added query by query; a query that raises ends the step and
\* leaves what the queries before it added.
Step5b ==
    /\ pc = "step5b"
    /\ \E run \in BOOLEAN :
       \E ok \in BOOLEAN :
       \E found \in Results(Pool, MaxHeld - Held) :
          IF run
          THEN /\ heap' = heap \o [k \in DOMAIN found |-> Pool[found[k]]]
               /\ local_records' = Ids(Len(heap) + 1, Len(heap) + Len(found))
               /\ warned' = (warned \/ ~ok)
               /\ pc' = IF ok THEN Following("step5b")
                        ELSE OnFailure("step5b")
          ELSE /\ found = <<>>
               /\ ok
               /\ pc' = Following("step5b")
               /\ UNCHANGED <<heap, local_records, warned>>
    /\ UNCHANGED <<serp_records, yelp_records, pplx_base_records,
                   pplx_group_records, enrich_call, maps_call, calls>>
    /\ UNCHANGED engine

\* Step 6a, lines 400-408: when it is switched on, research_businesses
\* delivers records, or raises.
Step6a ==
    /\ pc = "step6a"
    /\ \E run \in BOOLEAN :
       \E ok \in BOOLEAN :
       \E found \in Results(Pool, MaxHeld - Held) :
          IF run /\ ok
          THEN /\ heap' = heap \o [k \in DOMAIN found |-> Pool[found[k]]]
               /\ pplx_base_records' =
                     Ids(Len(heap) + 1, Len(heap) + Len(found))
               /\ pc' = Following("step6a")
               /\ UNCHANGED warned
          ELSE /\ found = <<>>
               /\ warned' = (warned \/ run)
               /\ pc' = IF run THEN OnFailure("step6a")
                        ELSE Following("step6a")
               /\ UNCHANGED <<heap, pplx_base_records>>
    /\ UNCHANGED <<serp_records, yelp_records, local_records,
                   pplx_group_records, enrich_call, maps_call, calls>>
    /\ UNCHANGED engine

\* Lines 387 and 411-413: the names the field groups are researched for.
AllNamesForEnrichment ==
    {id \in Range(serp_records \o yelp_records \o local_records
                      \o pplx_base_records) :
        Truthy(Get(heap[id], "Name", Text("")))}

\* Step 6b, lines 416-443: when it is switched on and there are names, every
\* field group gets an entry: the records research_field_group delivers,
\* or no record when it raises.
Step6b ==
    /\ pc = "step6b"
    /\ \E run \in BOOLEAN :
       \E groups \in 0..MaxGroups :
       \E failed \in SUBSET (1..groups) :
       \E found \in Results(Pool, MaxHeld - Held) :
       \E cut \in [0..groups -> 0..Len(found)] :
          IF run /\ groups > 0 /\ AllNamesForEnrichment # {}
          THEN /\ cut[0] = 0
               /\ cut[groups] = Len(found)
               /\ \A g \in 1..groups :
                     /\ cut[g - 1] <= cut[g]
                     /\ g \in failed => cut[g - 1] = cut[g]
               /\ heap' = heap \o [k \in DOMAIN found |-> Pool[found[k]]]
               /\ pplx_group_records' =
                     [g \in 1..groups |->
                         Ids(Len(heap) + cut[g - 1] + 1, Len(heap) + cut[g])]
               /\ warned' = (warned \/ failed # {})
               /\ pc' = IF failed = {} THEN Following("step6b")
                        ELSE OnFailure("step6b")
          ELSE /\ groups = 0
               /\ found = <<>>
               /\ pc' = Following("step6b")
               /\ UNCHANGED <<heap, pplx_group_records, warned>>
    /\ UNCHANGED <<serp_records, yelp_records, local_records,
                   pplx_base_records, enrich_call, maps_call, calls>>
    /\ UNCHANGED engine

\* Line 452, `if s`: the collection is not empty.
NotEmpty(s) == s # <<>>

\* A variant of CallArguments that always calls the engine with the maps
\* records as primary.
CallArgumentsNoPromotion(serp, others) ==
    [call |-> TRUE, primary |-> serp,
     secondary_lists |-> SelectSeq(others, NotEmpty)]

\* Lines 449-464: whether step 7 calls fuzzy_merge_records, and with what
\* arguments.  others is yelp_records, local_records, pplx_base_records and
\* the values of pplx_group_records.
CallArguments(serp, others) ==
    LET lists == SelectSeq(others, NotEmpty)
    IN  IF serp # <<>>
        THEN [call |-> TRUE, primary |-> serp, secondary_lists |-> lists]
        ELSE IF lists # <<>>
        THEN [call |-> TRUE, primary |-> Head(lists),
              secondary_lists |-> Tail(lists)]
        ELSE [call |-> FALSE, primary |-> <<>>, secondary_lists |-> <<>>]

\* Step 7, lines 448-467: fuzzy_merge_records is called, or the merged
\* result is the empty list, which goes to deduplicate_by_name.
Step7 ==
    /\ pc = "step7"
    /\ LET args == CallArguments(serp_records,
                                 <<yelp_records, local_records,
                                   pplx_base_records>> \o pplx_group_records)
       IN  /\ primary' = args.primary
           /\ secondary_lists' = args.secondary_lists
           /\ pc' = IF args.call THEN "call" ELSE "dedup"
    /\ orig' = heap
    /\ snap' = heap
    /\ UNCHANGED <<heap, match_threshold, threshold, threshold_types, merged,
                   merged_names, done, fate, records, result, seen_names, di,
                   enrich_call, maps_call, calls>>
    /\ UNCHANGED collections

NextPipeline ==
    \/ Step1
    \/ Step2
    \/ Step3
    \/ Step4
    \/ Step5a
    \/ Step5b
    \/ Step6a
    \/ Step6b
    \/ Step7
    \/ Call
    \/ MergeStep
    \/ MergeReturn
    \/ DedupStep
    \/ DedupReturn
    \/ StripTracking

SpecPipeline == InitPipeline /\ [][NextPipeline]_vars

(***************************************************************************)
(* Calls of fuzzy_merge_records and deduplicate_by_name that run at the    *)
(* same time, each with its own arguments and its own locals (a Python     *)
(* call frame), on one heap.  The functions use no module-level name but   *)
(* fuzz and their helpers (lines 144-227).                                 *)
(***************************************************************************)
\* The number of calls that run at the same time.
NumCalls == 2

\* The locals of a call before its first step.
Frame(fn, prim, sec, recs) ==
    [fn |-> fn, primary |-> prim, secondary |-> sec, records |-> recs,
     merged |-> <<>>, merged_names |-> <<>>, done |-> 0,
     result |-> <<>>, seen_names |-> <<>>, di |-> 1, pc |-> "call"]

\* The records the calls are made on: the first two of Pool, one business
\* under two aliases.
CallPool == SubSeq(Pool, 1, 2)

\* NumCalls calls on records of CallPool: call c owns the objects
\* cut[c - 1] + 1 .. cut[c]; a call of fuzzy_merge_records takes the first
\* split[c] of them as primary and the others as secondary records, with
\* the thresholds the pipeline uses.
InitConcurrent ==
    \E n \in 0..MaxRecords :
    \E cut \in [0..NumCalls -> 0..n] :
        /\ cut[0] = 0
        /\ cut[NumCalls] = n
        /\ \A c \in 1..NumCalls : cut[c - 1] <= cut[c]
        /\ \E fns \in [1..NumCalls ->
                          {"fuzzy_merge_records", "deduplicate_by_name"}] :
           \E split \in [1..NumCalls -> 0..n] :
              /\ \A c \in 1..NumCalls :
                    /\ split[c] <= cut[c] - cut[c - 1]
                    /\ fns[c] = "deduplicate_by_name" => split[c] = 0
              /\ calls =
                    [c \in 1..NumCalls |->
                        IF fns[c] = "fuzzy_merge_records"
                        THEN Frame(fns[c],
                                   Ids(cut[c - 1] + 1, cut[c - 1] + split[c]),
                                   Ids(cut[c - 1] + split[c] + 1, cut[c]),
                                   <<>>)
                        ELSE Frame(fns[c], <<>>, <<>>,
                                   Ids(cut[c - 1] + 1, cut[c]))]
        /\ \E choice \in [1..n -> DOMAIN CallPool] :
              heap = [i \in 1..n |-> CallPool[choice[i]]]
        /\ orig = heap
        /\ pc = "concurrent"
        /\ primary = <<>>
        /\ secondary_lists = <<>>
        /\ merged = <<>>
        /\ merged_names = <<>>
        /\ done = 0
        /\ fate = <<>>
        /\ records = <<>>
        /\ snap = <<>>
        /\ result = <<>>
        /\ seen_names = <<>>
        /\ di = 1
        /\ match_threshold = DefaultMatchThreshold
        /\ threshold = DefaultDedupThreshold
        /\ threshold_types = <<"int", "int">>
        /\ NoCollections
        /\ enrich_call = NoEnrichCall
        /\ maps_call = NoMapsCall

\* What a step of a call leaves alone.
shared == <<orig, primary, secondary_lists, match_threshold, threshold,
            threshold_types, merged, merged_names, done, fate, records, snap,
            result, seen_names, di, pc, serp_records, yelp_records,
            local_records, pplx_base_records, pplx_group_records, warned,
            enrich_call, maps_call>>

\* A variant of DedupLocals in which seen_names is one list of the module,
\* which holds the names every call has accepted.
DedupLocalsModuleLevel(c) ==
    [result |-> calls[c].result,
     seen_names |-> Flatten([d \in DOMAIN calls |-> calls[d].seen_names])]

\* Lines 208-209: result and seen_names are locals of the call.
DedupLocals(c) ==
    [result |-> calls[c].result, seen_names |-> calls[c].seen_names]

\* Lines 173-174: merged and merged_names are locals of the call; the dicts
\* are objects of the heap.
MergeLocals(c) ==
    [heap |-> heap, merged |-> calls[c].merged,
     merged_names |-> calls[c].merged_names]

\* A call begins: fuzzy_merge_records copies its primary (lines 173-174),
\* deduplicate_by_name sets up its lists (lines 208-209).
ConcurrentCall ==
    \E c \in DOMAIN calls :
        /\ calls[c].pc = "call"
        /\ IF calls[c].fn = "fuzzy_merge_records"
           THEN LET st == InitMerged(heap, calls[c].primary)
                IN  /\ heap' = st.heap
                    /\ calls' =
                          [calls EXCEPT
                              ![c].merged = st.merged,
                              ![c].merged_names =
                                  [i \in 1..Len(st.merged) |->
                                      NameOf(st.heap[st.merged[i]])],
                              ![c].pc = "merge"]
           ELSE /\ heap' = heap
                /\ calls' = [calls EXCEPT ![c].pc = "dedup"]
        /\ UNCHANGED shared

\* One iteration of the loops of lines 176-202 in a call.
ConcurrentMergeStep ==
    \E c \in DOMAIN calls :
        /\ calls[c].pc = "merge"
        /\ calls[c].done < Len(calls[c].secondary)
        /\ LET st == MergeOne(MergeLocals(c),
                              calls[c].secondary[calls[c].done + 1],
                              match_threshold)
           IN  /\ heap' = st.heap
               /\ calls' = [calls EXCEPT ![c].merged = st.merged,
                                         ![c].merged_names = st.merged_names,
                                         ![c].done = calls[c].done + 1]
        /\ UNCHANGED shared

\* Line 204 in a call.
ConcurrentMergeReturn ==
    \E c \in DOMAIN calls :
        /\ calls[c].pc = "merge"
        /\ calls[c].done = Len(calls[c].secondary)
        /\ calls' = [calls EXCEPT ![c].pc = "returned"]
        /\ UNCHANGED heap
        /\ UNCHANGED shared

\* One iteration of the loop of lines 211-225 in a call.
ConcurrentDedupStep ==
    \E c \in DOMAIN calls :
        /\ calls[c].pc = "dedup"
        /\ calls[c].di <= Len(calls[c].records)
        /\ LET st == DedupOne(DedupLocals(c), heap,
                              calls[c].records[calls[c].di], threshold)
           IN  calls' = [calls EXCEPT ![c].result = st.result,
                                     ![c].seen_names = st.seen_names,
                                     ![c].di = calls[c].di + 1]
        /\ UNCHANGED heap
        /\ UNCHANGED shared

\* Line 227 in a call.
ConcurrentDedupReturn ==
    \E c \in DOMAIN calls :
        /\ calls[c].pc = "dedup"
        /\ calls[c].di > Len(calls[c].records)
        /\ calls' = [calls EXCEPT ![c].pc = "returned"]
        /\ UNCHANGED heap
        /\ UNCHANGED shared

NextConcurrent ==
    \/ ConcurrentCall
    \/ ConcurrentMergeStep
    \/ ConcurrentMergeReturn
    \/ ConcurrentDedupStep
    \/ ConcurrentDedupReturn

SpecConcurrent == InitConcurrent /\ [][NextConcurrent]_vars

(***************************************************************************)
(* What the claims speak of.                                               *)
(***************************************************************************)
\* The secondary records of the call in processing order.
SecIds == Flatten(secondary_lists)

\* The objects passed to fuzzy_merge_records.
InputIds == DOMAIN orig

\* fuzzy_merge_records has returned and nothing has touched its output yet.
Returned == pc \in {"dedup", "strip"}

\* A value that is null or blank after trimming.
Blank(v) == v.t = "none" \/ Strip(Str(v)) = <<>>

\* Field k of record rec holds a value that is not absent, null or blank.
Populated(rec, k) == k \in DOMAIN rec /\ ~Blank(rec[k])

\* The steps of the call that merged a secondary record into an output entry.
Merges == {i \in DOMAIN fate : fate[i].op = "merge"}

\* The steps that appended a secondary record.
Appends == {i \in DOMAIN fate : fate[i].op = "append"}

\* The index in merged of the output entry that input object id went to: a
\* primary record to its copy, a secondary record to its copy or to the
\* entry it was merged into.
EntryOf(id) ==
    IF id <= Len(primary) THEN id
    ELSE fate[CHOOSE i \in DOMAIN fate : fate[i].src = id].idx

\* C1: no input record is dropped.  Every secondary record processed so far
\* was either appended as one new entry or merged into one existing entry,
\* each primary record has one entry of its own, so the output has
\* len(primary) entries plus one per appended record, between len(primary)
\* and len(primary) plus the number of secondary records; on return every
\* secondary record has been processed.
C1_NoRecordDropped ==
    pc # "call" =>
        /\ Len(fate) = done
        /\ \A i \in DOMAIN fate :
              /\ fate[i].src = SecIds[i]
              /\ fate[i].op \in {"append", "merge"}
              /\ fate[i].idx \in 1..Len(merged)
              /\ fate[i].op = "append" =>
                    fate[i].idx = Len(primary)
                                  + Cardinality({j \in Appends : j <= i})
        /\ Len(merged) = Len(primary) + Cardinality(Appends)
        /\ Len(primary) <= Len(merged)
        /\ Len(merged) <= Len(primary) + Len(SecIds)
        /\ \A i, j \in DOMAIN merged : i # j => merged[i] # merged[j]
        /\ pc # "merge" => done = Len(SecIds)

\* A call has returned after appending one secondary record and merging
\* another into the copy of a primary record.
C1_Witness ==
    /\ Returned
    /\ Len(primary) >= 1
    /\ Appends # {}
    /\ Merges # {}

C3_FirstWriterWins ==
    \A i \in Merges : \A k \in DOMAIN fate[i].before :
        Populated(fate[i].before, k) => fate[i].after[k] = fate[i].before[k]

\* C4: a merge sets every field whose secondary value is non-null and
\* non-blank and whose value in the output entry was absent, null or blank,
\* and writes no field whose secondary value is null or blank.
C4_FieldFill ==
    \A i \in Merges :
        LET sec == orig[fate[i].src]
            old == fate[i].before
            new == fate[i].after
        IN  \A k \in DOMAIN sec :
              /\ (~Blank(sec[k]) /\ ~Populated(old, k)) =>
                    (k \in DOMAIN new /\ new[k] = sec[k])
              /\ Blank(sec[k]) =>
                    /\ k \in DOMAIN new <=> k \in DOMAIN old
                    /\ k \in DOMAIN old => new[k] = old[k]

\* One merge filled a field that was null, created a field that was absent
\* and left alone a field whose secondary value is blank.
C4_Witness ==
    \E i \in Merges :
        LET sec == orig[fate[i].src]
            old == fate[i].before
            new == fate[i].after
        IN  /\ \E k \in DOMAIN sec :
                  k \in DOMAIN old /\ old[k] = None /\ new[k] = sec[k]
            /\ \E k \in DOMAIN sec : k \notin DOMAIN old /\ new[k] = sec[k]
            /\ \E k \in DOMAIN sec : Blank(sec[k]) /\ Populated(old, k)

\* The normalized name of input object id.
InputName(id) == NameOf(orig[id])

\* The record output entry j was created from: a primary record or the
\* secondary record that was appended.
SourceOf(j) ==
    IF j <= Len(primary) THEN orig[primary[j]]
    ELSE orig[fate[CHOOSE i \in Appends : fate[i].idx = j].src]

\* C5: in reconcile a secondary record whose normalized name is empty is
\* always appended as its own entry, no secondary record is merged into an
\* entry whose cached name is empty, and until the call has returned an
\* entry with an empty cached name holds exactly the fields and values of the
\* record it was created from.
C5_UnmatchableIsolation ==
    /\ \A i \in DOMAIN fate :
          InputName(fate[i].src) = <<>> =>
              /\ fate[i].op = "append"
              /\ fate[i].after = orig[fate[i].src]
    /\ \A i \in Merges : merged_names[fate[i].idx] # <<>>
    /\ pc \in {"merge", "dedup", "strip"} =>
          \A j \in DOMAIN merged :
              merged_names[j] = <<>> => heap[merged[j]] = SourceOf(j)

\* A call has returned with a nameless primary record, a nameless secondary
\* record that was appended, and a named secondary record processed after
\* them.
C5_Witness ==
    /\ Returned
    /\ \E j \in 1..Len(primary) : merged_names[j] = <<>>
    /\ \E i \in Appends : fate[i].name = <<>>
           /\ \E i2 \in DOMAIN fate : i2 > i /\ fate[i2].name # <<>>

\* The normalized name of the record deduplicate_by_name was passed as
\* number j.
DedupName(j) == NameOf(snap[records[j]])

\* The records of the loop of deduplicate_by_name processed so far.
Processed == 1..(di - 1)

\* C6: in deduplicate a record whose normalized name is empty is always kept,
\* its empty name never enters the accepted names, and every record that was
\* discarded is a named record that scores at least the threshold against a
\* named record kept before it.
C6_DedupKeepsNameless ==
    pc \in {"dedup", "strip"} =>
        /\ \A j \in Processed :
              DedupName(j) = <<>> => records[j] \in Range(result)
        /\ <<>> \notin Range(seen_names)
        /\ \A j \in Processed :
              records[j] \notin Range(result) =>
                  /\ DedupName(j) # <<>>
                  /\ \E j2 \in 1..(j - 1) :
                        /\ records[j2] \in Range(result)
                        /\ DedupName(j2) # <<>>
                        /\ Score(DedupName(j), DedupName(j2)) >= threshold

\* deduplicate has returned: a nameless record that came after a kept named
\* record was kept, and a named record after it was discarded.
C6_Witness ==
    /\ pc = "strip"
    /\ \E j1, j2, j3 \in DOMAIN records :
          /\ j1 < j2 /\ j2 < j3
          /\ DedupName(j1) # <<>>
          /\ DedupName(j2) = <<>>
          /\ records[j2] \in Range(result)
          /\ records[j3] \notin Range(result)

\* C7: deduplicate applied to what deduplicate returned, with the same
\* threshold, returns the same records in the same order.
C7_DedupIdempotent ==
    pc = "strip" => Deduplicate(heap, result, threshold) = result

\* deduplicate has returned at least two named records after discarding one.
C7_Witness ==
    /\ pc = "strip"
    /\ Len(result) < Len(records)
    /\ Len(seen_names) >= 2

\* C8: neither function changes its arguments.  The objects passed to
\* fuzzy_merge_records keep their fields and values, and while
\* deduplicate_by_name runs and when it returns, the list it was passed and
\* the objects in it are as they were passed.
C8_InputsNotMutated ==
    /\ pc \in {"call", "merge", "dedup", "strip"} =>
          /\ Len(heap) >= Len(orig)
          /\ \A id \in InputIds : heap[id] = orig[id]
    /\ pc \in {"dedup", "strip"} =>
          /\ records = merged
          /\ \A j \in DOMAIN records : heap[records[j]] = snap[records[j]]

\* fuzzy_merge_records has returned after a merge changed the copy of a
\* primary record.
C8_Witness ==
    /\ Returned
    /\ \E i \in Merges :
          /\ fate[i].idx <= Len(primary)
          /\ fate[i].after # fate[i].before
          /\ fate[i].before = orig[primary[fate[i].idx]]

\* C9, as claimed: the records both functions return are objects distinct
\* from the records they were passed, so that removing the tracking fields
\* from the records deduplicate_by_name returned leaves the records it was
\* passed as they were.
C9_ReturnedRecordsAreCopies ==
    /\ pc \in {"dedup", "strip", "done"} => Range(merged) \cap InputIds = {}
    /\ pc \in {"strip", "done"} => Range(result) \cap Range(records) = {}
    /\ pc = "done" =>
          \A j \in DOMAIN records : heap[records[j]] = snap[records[j]]

\* The names an entry of a merge step was compared with: the non-empty
\* cached names of the output entries there were at that step.
Candidates(i) == {j \in 1..fate[i].len : merged_names[j] # <<>>}

\* C10: a secondary record that is merged is merged into the entry whose
\* cached non-empty name has the greatest score with its name among the
\* entries there are at that step, and into the first of them when several
\* have that score.
C10_BestMatch ==
    \A i \in Merges :
        /\ fate[i].idx \in Candidates(i)
        /\ fate[i].score = Score(fate[i].name, merged_names[fate[i].idx])
        /\ \A j \in Candidates(i) :
              LET sc == Score(fate[i].name, merged_names[j])
              IN  /\ sc <= fate[i].score
                  /\ sc = fate[i].score => fate[i].idx <= j

\* A record was merged into the second entry although the first entry also
\* reached the threshold, with a lower score.
C10_Witness ==
    \E i \in Merges :
        /\ fate[i].idx > 1
        /\ 1 \in Candidates(i)
        /\ Score(fate[i].name, merged_names[1]) >= match_threshold
        /\ match_threshold > 0

\* C11, as claimed: whatever the threshold, a secondary record with a name is
\* merged if and only if some non-empty cached name scores at least the
\* threshold with its name (the greatest score is at least the threshold);
\* otherwise it is appended and its name enters the cache.
C11_MergeIffThresholdReached ==
    \A i \in DOMAIN fate :
        fate[i].name # <<>> =>
            /\ fate[i].op = "merge" <=>
                  \E j \in Candidates(i) :
                      Score(fate[i].name, merged_names[j]) >= match_threshold
            /\ fate[i].op = "append" =>
                  merged_names[fate[i].idx] = fate[i].name

\* The positions in records of the named records deduplicate has kept.
KeptNamed ==
    {j \in Processed : records[j] \in Range(result) /\ DedupName(j) # <<>>}

\* The elements of seq at the positions of the set pos, in order.
RECURSIVE Pick(_, _, _)
Pick(seq, pos, i) ==
    IF i > Len(seq) THEN <<>>
    ELSE IF i \in pos THEN <<seq[i]>> \o Pick(seq, pos, i + 1)
    ELSE Pick(seq, pos, i + 1)

\* C12: in deduplicate a named record is discarded if and only if its name
\* scores at least the threshold against the name of a named record kept
\* before it, records that were discarded are not compared against, and the
\* accepted names are the names of the named records kept, in order.
C12_DiscardRule ==
    pc \in {"dedup", "strip"} =>
        /\ \A j \in Processed :
              DedupName(j) # <<>> =>
                  (records[j] \notin Range(result) <=>
                      \E j2 \in KeptNamed :
                          /\ j2 < j
                          /\ Score(DedupName(j), DedupName(j2)) >= threshold)
        /\ seen_names =
              Pick([j \in DOMAIN records |-> DedupName(j)], KeptNamed, 1)

\* deduplicate has returned after discarding the second record and keeping
\* the third, whose name reaches the threshold with the name of the
\* discarded record and with no name of a kept record.
C12_Witness ==
    /\ pc = "strip"
    /\ Len(records) = 3
    /\ result = <<records[1], records[3]>>
    /\ Score(DedupName(3), DedupName(2)) >= threshold
    /\ Score(DedupName(3), DedupName(1)) < threshold
    /\ Len(seen_names) = 2

\* C13: what deduplicate has kept is the records it was passed, without those
\* it discarded, in the order it was passed them; the first record is always
\* kept; and every record kept has the fields and values it was passed with.
C13_KeepsFirstVerbatim ==
    pc \in {"dedup", "strip"} =>
        /\ result = Pick(records, {j \in Processed :
                                      records[j] \in Range(result)}, 1)
        /\ Len(result) <= di - 1
        /\ di > 1 => result[1] = records[1]
        /\ \A r \in DOMAIN result : heap[result[r]] = snap[result[r]]

\* deduplicate has returned two of three records, the discarded one between
\* them holding a populated field that the record kept before it lacks or
\* holds blank.
C13_Witness ==
    /\ pc = "strip"
    /\ Len(records) = 3
    /\ result = <<records[1], records[3]>>
    /\ \E k \in DOMAIN snap[records[2]] :
          /\ Populated(snap[records[2]], k)
          /\ ~Populated(heap[records[1]], k)

\* C14, as claimed: with a threshold of at most 100, a secondary record whose
\* normalized name is the normalized name of a primary record is merged, not
\* appended; and reconciling one primary record with one such secondary
\* record returns one record that holds every populated field of the primary
\* record with the primary's value and every populated field of the secondary
\* record that the primary record does not have.
C14_EqualNamesMerge ==
    match_threshold <= 100 =>
        /\ \A i \in DOMAIN fate :
              (/\ fate[i].name # <<>>
               /\ \E j \in 1..Len(primary) : merged_names[j] = fate[i].name)
                  => fate[i].op = "merge"
        /\ (/\ Returned
             /\ Len(primary) = 1
             /\ Len(SecIds) = 1
             /\ InputName(SecIds[1]) # <<>>
             /\ InputName(SecIds[1]) = InputName(primary[1])) =>
                /\ Len(merged) = 1
                /\ LET prim == orig[primary[1]]
                       sec == orig[SecIds[1]]
                       out == heap[merged[1]]
                   IN  /\ \A k \in DOMAIN prim :
                             Populated(prim, k) =>
                                 (k \in DOMAIN out /\ out[k] = prim[k])
                       /\ \A k \in DOMAIN sec \ DOMAIN prim :
                             Populated(sec, k) =>
                                 (k \in DOMAIN out /\ out[k] = sec[k])

\* The words of a name.
Tokens(name) == Range(Split(name))

\* The positions in records of the records deduplicate has kept.
Kept == {j \in Processed : records[j] \in Range(result)}

PopulatedAliases(rec) ==
    {a \in DOMAIN NameKeys : Populated(rec, NameKeys[a])}

\* The normalized name the claim gives record rec: that of the value of its
\* first populated alias, empty when no alias is populated.
ClaimedName(rec) ==
    LET pa == PopulatedAliases(rec)
    IN  IF pa = {} THEN <<>>
        ELSE LET first == CHOOSE a \in pa : \A b \in pa : a <= b
             IN  NormalizeName(Strip(Str(rec[NameKeys[first]])))

\* C16, as claimed: the name a record is matched by is the value of its
\* first populated alias in the priority order; a record with a populated
\* alias has that name and is compared, and only a record without one is
\* unmatchable.
C16_FirstPopulatedAlias ==
    /\ pc # "call" =>
          \A j \in 1..Len(primary) :
              merged_names[j] = ClaimedName(orig[primary[j]])
    /\ \A i \in DOMAIN fate :
          /\ fate[i].name = ClaimedName(orig[fate[i].src])
          /\ PopulatedAliases(orig[fate[i].src]) # {} => fate[i].name # <<>>
    /\ pc \in {"dedup", "strip"} =>
          \A j \in Processed :
              (PopulatedAliases(snap[records[j]]) # {} /\ j \in Kept) =>
                  ClaimedName(snap[records[j]]) \in Range(seen_names)

Count(toks, w) == Cardinality({i \in DOMAIN toks : toks[i] = w})

\* Names a and b are made of the same words in another order.
SameWords(a, b) ==
    /\ a # b
    /\ Tokens(a) = Tokens(b)
    /\ \A w \in Tokens(a) : Count(Split(a), w) = Count(Split(b), w)

\* C18: the scorer tolerates word order.  A name made of the words of a
\* cached name in another order scores at least the default threshold 70
\* with it, and the secondary record is merged, not appended, whenever the
\* threshold of the call is at most that score.
C18_WordOrderTolerance ==
    \A i \in DOMAIN fate : \A j \in Candidates(i) :
        SameWords(fate[i].name, merged_names[j]) =>
            /\ Score(fate[i].name, merged_names[j]) >= DefaultMatchThreshold
            /\ match_threshold <= Score(fate[i].name, merged_names[j]) =>
                  fate[i].op = "merge"

\* With the default threshold a secondary record was merged into the copy of
\* a primary record whose name has its words in another order.
C18_Witness ==
    /\ match_threshold = DefaultMatchThreshold
    /\ \E i \in Merges :
          /\ fate[i].idx <= Len(primary)
          /\ SameWords(fate[i].name, merged_names[fate[i].idx])

\* The number of the secondary collection that holds input object id.
ListOf(id) ==
    CHOOSE l \in DOMAIN secondary_lists : id \in Range(secondary_lists[l])

\* C19: the output of reconcile is in order.  Entry j is the j-th record the
\* call created: the first len(primary) entries are the copies of the primary
\* records in their order, under their names, and the entries that follow
\* are the copies of the secondary records appended, in the order they were
\* processed in, which is collection by collection and record by record.
C19_OutputOrder ==
    pc \in {"merge", "dedup", "strip"} =>
        /\ \A j \in DOMAIN merged : merged[j] = Len(orig) + j
        /\ Len(merged_names) = Len(merged)
        /\ \A j \in 1..Len(primary) :
              /\ merged_names[j] = InputName(primary[j])
              /\ done = 0 => heap[merged[j]] = orig[primary[j]]
        /\ \A i \in DOMAIN fate : fate[i].src = SecIds[i]
        /\ \A i, i2 \in DOMAIN fate :
              i < i2 => ListOf(fate[i].src) <= ListOf(fate[i2].src)
        /\ \A a \in Appends :
              /\ fate[a].idx > Len(primary)
              /\ merged_names[fate[a].idx] = fate[a].name
              /\ fate[a].after = orig[fate[a].src]
        /\ \A a, b \in Appends : a < b => fate[a].idx < fate[b].idx

\* A call with primary records has returned after appending records of two
\* secondary collections.
C19_Witness ==
    /\ Returned
    /\ Len(primary) >= 1
    /\ \E a, b \in Appends : ListOf(fate[a].src) < ListOf(fate[b].src)

\* C20, as claimed: a secondary record is never merged into an entry that
\* was appended from a record of the same secondary collection; an appended
\* entry is matched by records of later collections only.
C20_NoMergeWithinCollection ==
    \A i \in Merges :
        fate[i].idx > Len(primary) =>
            LET a == CHOOSE a \in Appends : fate[a].idx = fate[i].idx
            IN  ListOf(fate[a].src) < ListOf(fate[i].src)

\* C21: the merge engine raises nothing on malformed records.  Called with
\* numeric thresholds on any collections (an empty primary, no secondary
\* collection, records without a name field, with null or blank values),
\* neither function ever raises: the loops stay within their collections,
\* every secondary record is processed and every output record is looked at
\* by deduplicate_by_name.
C21_NeverRaisesOnMalformedInput ==
    threshold_types = <<"int", "int">> =>
        /\ pc # "raised"
        /\ done <= Len(SecIds)
        /\ pc \in {"dedup", "strip", "done"} =>
              /\ done = Len(SecIds)
              /\ Len(merged) + Cardinality(Merges) = Len(primary) + Len(SecIds)
              /\ di <= Len(records) + 1
        /\ pc \in {"strip", "done"} => di = Len(records) + 1

\* Both functions have returned on an empty primary and secondary records
\* of which one has no name field, one a null value and one a blank value.
C21_Witness ==
    /\ pc = "strip"
    /\ primary = <<>>
    /\ \E i \in DOMAIN fate :
          \A a \in DOMAIN NameKeys : NameKeys[a] \notin DOMAIN orig[fate[i].src]
    /\ \E i \in DOMAIN fate : \E k \in DOMAIN orig[fate[i].src] :
          orig[fate[i].src][k] = None
    /\ \E i \in DOMAIN fate : \E k \in DOMAIN orig[fate[i].src] :
          /\ orig[fate[i].src][k] # None
          /\ Blank(orig[fate[i].src][k])

\* C22, as claimed: a threshold that is no number is rejected at the
\* boundary.  With such a match threshold fuzzy_merge_records raises before
\* it has processed any record, whatever its collections are, and with such
\* a deduplicate threshold deduplicate_by_name raises before it has processed
\* any record.
C22_FailFastAtBoundary ==
    /\ threshold_types[1] # "int" =>
          /\ pc \in {"call", "raised"}
          /\ merged = <<>>
          /\ fate = <<>>
    /\ threshold_types[2] # "int" =>
          /\ pc \notin {"strip", "done"}
          /\ di = 1
          /\ result = <<>>

\* C23: with an empty primary the first secondary record that has a name is
\* appended, whatever the match threshold is (0 included): the step does not
\* raise, the record gets an entry of its own under its name, and the entry
\* holds its fields.
C23_EmptyPrimaryFirstNamedAppended ==
    primary = <<>> =>
        /\ (pc = "raised" /\ threshold_types[1] = "int") => done = Len(SecIds)
        /\ \A i \in DOMAIN fate :
              (/\ fate[i].name # <<>>
               /\ \A i2 \in 1..(i - 1) : fate[i2].name = <<>>)
                  => /\ fate[i].op = "append"
                     /\ fate[i].idx = i
                     /\ fate[i].after = orig[fate[i].src]
                     /\ pc \in {"merge", "dedup", "strip"} =>
                           merged_names[fate[i].idx] = fate[i].name

\* A call with an empty primary and a threshold of 0 has returned after
\* appending a record without a name and then one that has a name.
C23_Witness ==
    /\ Returned
    /\ primary = <<>>
    /\ match_threshold = 0
    /\ Len(fate) >= 2
    /\ fate[1].name = <<>>
    /\ fate[2].name # <<>>
    /\ fate[2].op = "append"

\* C27, as claimed: the name cache is consistent.  While fuzzy_merge_records
\* runs and when it has returned, merged_names has one entry for every
\* output record, and the entry at index j is the normalized name computed
\* from output record j as it is now; a merge does not change it.
C27_NameCacheConsistent ==
    pc \in {"merge", "dedup", "strip"} =>
        /\ Len(merged_names) = Len(merged)
        /\ \A j \in DOMAIN merged :
              merged_names[j] = NameOf(heap[merged[j]])

\* C28, as claimed: deduplicate_by_name, run on the output of
\* fuzzy_merge_records with a threshold that is at least the match
\* threshold, never discards an entry that was appended from a secondary
\* collection.
C28_DedupKeepsAppended ==
    (pc \in {"dedup", "strip"} /\ threshold >= match_threshold) =>
        \A a \in Appends :
            fate[a].idx \in Processed => records[fate[a].idx] \in Range(result)

\* C29, as claimed: enrich_with_place_details attempts at most max_places
\* lookups in a call, however many records have a Data ID and whether the
\* lookups succeed or fail, and a record that was not looked up or whose
\* lookup failed is passed through: the same object, unchanged.
C29_AtMostMaxPlacesLookups ==
    pc \in {"enrich", "enriched"} =>
        /\ enrich_call.attempted <= enrich_call.max_places
        /\ Len(enrich_call.enriched) = enrich_call.i - 1
        /\ \A j \in DOMAIN enrich_call.enriched :
              enrich_call.outcomes[j] # "fetched" =>
                  /\ enrich_call.enriched[j] = enrich_call.records[j]
                  /\ heap[enrich_call.records[j]] = snap[enrich_call.records[j]]

\* The records of the pages requested so far, page after page.
RECURSIVE PagesUpTo(_)
PagesUpTo(request) ==
    IF request = 0 THEN <<>>
    ELSE PagesUpTo(request - 1)
             \o SelectSeq(maps_call.all_results,
                          LAMBDA r : r.request = request)

\* C30: search_google_maps terminates when every page request returns.  It
\* requests a page only while it has fewer than num_results records, every
\* page before the last one requested was full (20 results or more), so the
\* loop ends at an empty page, at a short page or when num_results records
\* are collected; and it returns the first num_results records collected,
\* all of them when they are fewer, in the order of the pages.
C30_MapsSearchTerminates ==
    /\ <>(pc = "maps_returned")
    /\ [](pc \in {"maps", "sliced", "maps_returned"} =>
            /\ maps_call.start = per_page
                   * Cardinality({r.request : r \in Range(maps_call.all_results)})
            /\ Len(maps_call.all_results) >= per_page * (maps_call.requests - 1)
            /\ maps_call.requests > 0 =>
                   Len(maps_call.all_results)
                       < maps_call.num_results + MaxPageSize
            /\ maps_call.all_results = PagesUpTo(maps_call.requests)
            /\ pc = "maps_returned" =>
                  /\ Len(maps_call.returned) <= maps_call.num_results
                  /\ Len(maps_call.returned) <= Len(maps_call.all_results)
                  /\ (Len(maps_call.returned) < maps_call.num_results =>
                         maps_call.returned = maps_call.all_results)
                  /\ \A k \in DOMAIN maps_call.returned :
                        maps_call.returned[k] = maps_call.all_results[k])

\* The call has returned num_results records after three page requests,
\* of which the last delivered more than were asked for.
C30_Witness ==
    /\ pc = "maps_returned"
    /\ maps_call.requests = 3
    /\ Len(maps_call.all_results) > maps_call.num_results
    /\ Len(maps_call.returned) = maps_call.num_results

\* The collections of the pipeline in the order of step 7: the maps records,
\* Yelp, the local pack, Perplexity discovery, then the field groups.
Sources ==
    <<serp_records, yelp_records, local_records, pplx_base_records>>
        \o pplx_group_records

\* The numbers of the collections that hold records.
NonEmptySources == {k \in DOMAIN Sources : Sources[k] # <<>>}

C25_NeverAborts == pc # "stopped"

\* C25, amended: whatever the outcome of the maps search, the place
\* details, the web search, Yelp, the local pack and the Perplexity steps
\* is, the run goes on to the next step and from step 7 to the merge or to
\* deduplicate_by_name; only step 1, the query generation, stops the run,
\* and it does so before any collection holds a record.
C25_OnlyQueryGenerationStops ==
    [][/\ pc \in {"step2", "step3", "step4", "step5a", "step5b", "step6a",
                  "step6b"} => pc' = Following(pc)
       /\ pc = "step7" => pc' \in {"call", "dedup"}
       /\ pc' = "stopped" => (pc = "step1" /\ Held = 0 /\ ~warned)]_vars

\* A step has warned and the run has reached deduplicate_by_name with the
\* records of another step.
C25_Witness ==
    /\ pc = "dedup"
    /\ warned
    /\ serp_records = <<>>
    /\ records # <<>>

\* The loops of lines 176-202 from secondary record number i on, run
\* without a break.
RECURSIVE MergeFrom(_, _, _, _)
MergeFrom(st, secs, i, mt) ==
    IF i > Len(secs) THEN st
    ELSE MergeFrom(MergeOne(st, secs[i], mt), secs, i + 1, mt)

\* The records fuzzy_merge_records returns when it runs alone on the heap
\* h: their fields and values, in order.
AloneMerged(h, prim, secs, mt) ==
    LET st0 == InitMerged(h, prim)
        st == MergeFrom([heap |-> st0.heap, merged |-> st0.merged,
                         merged_names |->
                             [i \in 1..Len(st0.merged) |->
                                 NameOf(st0.heap[st0.merged[i]])]],
                        secs, 1, mt)
    IN  [j \in 1..Len(st.merged) |-> st.heap[st.merged[j]]]

\* C26: calls that run at the same time do not interfere.  In whatever
\* order the steps of the calls are taken, a call of fuzzy_merge_records
\* that has returned has returned the records it returns when it runs
\* alone on its arguments, a call of deduplicate_by_name the objects it
\* returns when it runs alone, and no call has changed an object passed to
\* a call.
C26_ConcurrentCallsDoNotInterfere ==
    pc = "concurrent" =>
        /\ \A id \in DOMAIN orig : heap[id] = orig[id]
        /\ \A c \in DOMAIN calls :
              calls[c].pc = "returned" =>
                  IF calls[c].fn = "fuzzy_merge_records"
                  THEN [j \in 1..Len(calls[c].merged) |->
                           heap[calls[c].merged[j]]]
                          = AloneMerged(orig, calls[c].primary,
                                        calls[c].secondary, match_threshold)
                  ELSE calls[c].result
                          = Deduplicate(orig, calls[c].records, threshold)

\* Two calls have returned whose steps were interleaved: a call of
\* fuzzy_merge_records that merged a record, and a call of
\* deduplicate_by_name that kept a record with a name the other call has
\* cached.
C26_Witness ==
    /\ pc = "concurrent"
    /\ \A c \in DOMAIN calls : calls[c].pc = "returned"
    /\ \E c, d \in DOMAIN calls :
          /\ calls[c].fn = "fuzzy_merge_records"
          /\ Len(calls[c].merged) < Len(calls[c].primary) + Len(calls[c].secondary)
          /\ calls[d].fn = "deduplicate_by_name"
          /\ \E n \in DOMAIN calls[d].seen_names :
                calls[d].seen_names[n] \in Range(calls[c].merged_names)

=============================================================================
